---- MODULE Spec2Model ----
(***************************************************************************)
(* Model of the multi-provider article generator: the three provider       *)
(* adapters, generateArticlesParallel, selectBestArticle (lib/ai-writers)  *)
(* and the three HTTP handlers that call them (api/generate, the cron      *)
(* handler with Odoo publishing, api/schedule).                            *)
(*                                                                         *)
(* JavaScript runs each continuation to completion, so one action is one   *)
(* synchronous stretch of code between two awaits.                         *)
(***************************************************************************)
EXTENDS Integers, Sequences, FiniteSets, TLC

\* ------------------------------------------------------------------ bounds
\* Longest vendor text, in words.
MaxWords == 2
\* Largest explicit scores.total drawn for selectBestArticle's inputs.
MaxScore == 2
\* Largest value of schedule.ts's topicCounter the model follows.
MaxCounter == 2
\* Week numbers 0..MaxWeek are drawn for the cron handler's clock.
MaxWeek == 3

\* ------------------------------------------------------------ basic values
\* JavaScript's undefined, for an unset environment variable or header.
Absent == "<undefined>"

\* JavaScript truthiness of an optional string.
Truthy(v) == v # Absent /\ v # ""

Writers == {"gemini", "chatgpt", "claude"}

\* The order in which generateArticlesParallel tests the keys and dispatches.
WriterOrder == <<"gemini", "chatgpt", "claude">>

\* The display name pushed to writerNames for each writer.
WriterName(w) ==
  CASE w = "gemini" -> "Gemini"
    [] w = "chatgpt" -> "ChatGPT"
    [] w = "claude" -> "Claude"

\* The AIConfig field each writer is enabled by.
KeyOf(w) ==
  CASE w = "gemini" -> "geminiApiKey"
    [] w = "chatgpt" -> "openaiApiKey"
    [] w = "claude" -> "anthropicApiKey"

KeyValues == {Absent, "", "key"}

AIConfigs == [{"geminiApiKey", "openaiApiKey", "anthropicApiKey"} -> KeyValues]

Categories == {"kompensacja_mocy_biernej", "kompensatory_svg"}

\* ------------------------------------------------------------------- texts
\* A text is a sequence of characters; "w" stands for any non-whitespace
\* character and " " for any whitespace character.
RECURSIVE WordsText(_)
WordsText(n) == IF n <= 1 THEN <<"w">> ELSE WordsText(n - 1) \o <<" ", "w">>

\* The text payloads a vendor may answer with: the empty text and texts of
\* 1..MaxWords words.
VendorTexts == {<<>>} \cup {WordsText(n) : n \in 1..MaxWords}

\* Number of maximal whitespace runs of a text.
RECURSIVE WsRuns(_)
WsRuns(t) ==
  IF t = <<>> THEN 0
  ELSE LET rest == WsRuns(Tail(t))
       IN IF Head(t) = " " /\ (Len(t) = 1 \/ t[2] # " ") THEN rest + 1 ELSE rest

\* content.split(/\s+/).length: one piece more than there are whitespace runs.
SplitLength(t) == WsRuns(t) + 1

\* -------------------------------------------------------------- articles
NoScores == [present |-> FALSE, total |-> 0]

Scores(n) == [present |-> TRUE, total |-> n]

\* A variant in which every adapter names gemini as the writer.
MkArticleCopied(w, topic, content) ==
  [title |-> topic, content |-> content, writer |-> "gemini",
   wordCount |-> SplitLength(content), scores |-> NoScores]

\* The GeneratedArticle an adapter returns (generatedAt is not modelled).
MkArticle(w, topic, content) ==
  [title |-> topic, content |-> content, writer |-> w,
   wordCount |-> SplitLength(content), scores |-> NoScores]

\* ---------------------------------------------------------------- adapters
\* What the vendor SDK call of an adapter may end in: an error (thrown by the
\* call or, for Gemini, by response.text()), a text payload, or a response
\* without a text payload (no choice for ChatGPT, a first block that is not
\* text for Claude).
VendorResponses(w) ==
  {[kind |-> "error", text |-> <<>>]}
    \cup {[kind |-> "text", text |-> t] : t \in VendorTexts}
    \cup (IF w = "gemini" THEN {} ELSE {[kind |-> "notext", text |-> <<>>]})

\* The text an adapter extracts from a non-error vendor response.
ExtractContent(w, r) == IF r.kind = "text" THEN r.text ELSE <<>>

Pending == [status |-> "pending"]

NotDispatched == [status |-> "none"]

\* The settled state of an adapter's promise after vendor response r.
AdapterSettle(w, topic, r) ==
  IF r.kind = "error"
    THEN [status |-> "rejected", reason |-> <<WriterName(w), "generation failed">>]
    ELSE [status |-> "fulfilled", value |-> MkArticle(w, topic, ExtractContent(w, r))]

\* A variant that tests the key against undefined only, so that an empty key
\* enables its writer.
DispatchListDefined(cfg) == SelectSeq(WriterOrder, LAMBDA w : cfg[KeyOf(w)] # Absent)

\* ------------------------------------------------- generateArticlesParallel
\* The writers whose adapters are invoked, in the order their promises are
\* pushed: one per truthy key.
DispatchList(cfg) == SelectSeq(WriterOrder, LAMBDA w : Truthy(cfg[KeyOf(w)]))

\* A variant that pushes every writer's name, enabled or not.
NamesOfAll(ps) == [i \in 1..Len(WriterOrder) |-> WriterName(WriterOrder[i])]

\* writerNames, pushed in step with promises.
NamesOf(ps) == [i \in 1..Len(ps) |-> WriterName(ps[i])]

\* Number of invocations of writer w's adapter among the promises ps; each
\* invocation issues one vendor call.
CallsOf(ps, w) == Cardinality({i \in 1..Len(ps) : ps[i] = w})

NoKeysError == "No API keys configured. At least one AI provider is required."

AllFailedError == "All AI writers failed to generate content"

NoArticlesError == "No articles to select from"

\* A variant that resolves only once every promise has fulfilled.
AllFulfilled(ps, prom) ==
  \A i \in 1..Len(ps) : prom[ps[i]].status = "fulfilled"

\* A variant that resolves as soon as one promise has settled.
AnySettled(ps, prom) ==
  \E i \in 1..Len(ps) : prom[ps[i]].status \in {"fulfilled", "rejected"}

\* Promise.allSettled resolves once every promise it was given has settled.
AllSettled(ps, prom) ==
  \A i \in 1..Len(ps) : prom[ps[i]].status \in {"fulfilled", "rejected"}

\* The array Promise.allSettled resolves to: one result per promise, in the
\* order of the promises array.
SettledResults(ps, prom) == [i \in 1..Len(ps) |-> prom[ps[i]]]

\* A variant that adds each article at the front of the array.
RECURSIVE CollectArticlesUnshift(_)
CollectArticlesUnshift(results) ==
  IF results = <<>> THEN <<>>
  ELSE LET r == Head(results)
       IN CollectArticlesUnshift(Tail(results))
            \o (IF r.status = "fulfilled" THEN <<r.value>> ELSE <<>>)

\* The forEach over the results: articles collects the fulfilled values in
\* index order.
RECURSIVE CollectArticles(_)
CollectArticles(results) ==
  IF results = <<>> THEN <<>>
  ELSE LET r == Head(results)
       IN (IF r.status = "fulfilled" THEN <<r.value>> ELSE <<>>)
            \o CollectArticles(Tail(results))

\* The forEach over the results: one console.error per rejected result,
\* naming writerNames[index].
RECURSIVE JoinErrors(_, _)
JoinErrors(results, names) ==
  IF results = <<>> THEN <<>>
  ELSE (IF Head(results).status = "rejected"
          THEN <<[src |-> "AI Writers", writer |-> Head(names)]>>
          ELSE <<>>)
         \o JoinErrors(Tail(results), Tail(names))

\* A variant without the check for an empty promises array.
StartOutcomeUnchecked(ps) == Pending

\* The check after the dispatch: with no promise pushed the function throws,
\* otherwise it goes on to await the join.
StartOutcome(ps) ==
  IF Len(ps) = 0 THEN [status |-> "rejected", error |-> NoKeysError] ELSE Pending

\* A variant that throws the no-providers error when no article was collected.
JoinOutcomeSameError(articles) ==
  IF Len(articles) = 0
    THEN [status |-> "rejected", error |-> NoKeysError]
    ELSE [status |-> "fulfilled", value |-> articles]

\* A variant that returns the array without checking that it is non-empty.
JoinOutcomeUnchecked(articles) == [status |-> "fulfilled", value |-> articles]

\* What generateArticlesParallel's promise settles to after the join.
JoinOutcome(articles) ==
  IF Len(articles) = 0
    THEN [status |-> "rejected", error |-> AllFailedError]
    ELSE [status |-> "fulfilled", value |-> articles]

\* ------------------------------------------------------- selectBestArticle
\* The ranking key: article.scores?.total || article.wordCount.
ScoreOf(a) ==
  IF a.scores.present /\ a.scores.total # 0 THEN a.scores.total ELSE a.wordCount

\* articles.map(article => ({article, score})).
Scored(articles) ==
  [i \in 1..Len(articles) |-> [article |-> articles[i], score |-> ScoreOf(articles[i])]]

\* Insertion of x into a list sorted by descending score, after every element
\* that does not compare greater than it (the sort is stable).
RECURSIVE InsertDesc(_, _)
InsertDesc(x, sorted) ==
  IF sorted = <<>> THEN <<x>>
  ELSE IF x.score - Head(sorted).score > 0
         THEN <<x>> \o sorted
         ELSE <<Head(sorted)>> \o InsertDesc(x, Tail(sorted))

\* scored.sort((a, b) => b.score - a.score) on a copy of the input.
RECURSIVE SortDesc(_)
SortDesc(scored) ==
  IF scored = <<>> THEN <<>>
  ELSE InsertDesc(scored[Len(scored)], SortDesc(SubSeq(scored, 1, Len(scored) - 1)))

\* selectBestArticle: the error it throws, or the article it returns together
\* with the sorted local array scored (empty on the single-article return).
selectBestArticle(articles) ==
  IF Len(articles) = 0
    THEN [ok |-> FALSE, error |-> NoArticlesError]
  ELSE IF Len(articles) = 1
    THEN [ok |-> TRUE, article |-> articles[1], scored |-> <<>>]
  ELSE LET scored == SortDesc(Scored(articles))
       IN [ok |-> TRUE, article |-> scored[1].article, scored |-> scored]

\* ------------------------------------------------------- handlers' inputs
\* A string built by the template `Bearer ${secret}`.
TemplateOf(secret) == IF secret = Absent THEN "undefined" ELSE secret

BearerOf(secret) == <<"Bearer", TemplateOf(secret)>>

\* An absent Authorization header.
NoHeader == <<>>

AuthHeaders == {NoHeader} \cup {<<"Bearer", t>> : t \in {"api", "cron", "undefined", ""}}

SigHeaders == {Absent, "cron", "bad"}

ApiSecrets == {Absent, "", "api"}

CronSecrets == {Absent, "", "cron"}

OdooKeys == {Absent, "odookey"}

Methods == {"OPTIONS", "GET", "POST"}

\* Days of the week as Date.getDay() numbers them.
Days == 0..6

Monday == 1

Thursday == 4

\* Request bodies of POST /api/generate: no object at all, or an object
\* whose fields may be missing or of the wrong type.
NoBody == [isObject |-> FALSE]

Bodies ==
  {NoBody} \cup
  [isObject : {TRUE},
   topic : {[isString |-> FALSE, s |-> <<>>], [isString |-> TRUE, s |-> <<>>],
            [isString |-> TRUE, s |-> <<"T">>]},
   keywords : {[isArray |-> FALSE, items |-> <<>>], [isArray |-> TRUE, items |-> <<>>],
               [isArray |-> TRUE, items |-> <<"k">>]},
   targetLength : {[isNumber |-> FALSE, n |-> 0], [isNumber |-> TRUE, n |-> 0],
                   [isNumber |-> TRUE, n |-> 500]},
   sections : {[isArray |-> FALSE, items |-> <<>>], [isArray |-> TRUE, items |-> <<"s">>]},
   category : {Absent, "kompensatory_svg", "kompensacja_mocy_biernej", "other"}]

DefaultTargetLength == 1500

\* validateOutline: the error it throws, or the outline it returns.
validateOutline(body) ==
  IF ~body.isObject
    THEN [ok |-> FALSE, error |-> "Request body is required"]
  ELSE IF ~(body.topic.isString /\ body.topic.s # <<>>)
    THEN [ok |-> FALSE, error |-> "topic is required and must be a string"]
  ELSE IF ~body.keywords.isArray \/ Len(body.keywords.items) = 0
    THEN [ok |-> FALSE, error |-> "keywords is required and must be a non-empty array"]
  ELSE [ok |-> TRUE,
        outline |->
          [topic |-> body.topic.s,
           keywords |-> body.keywords.items,
           targetLength |-> IF body.targetLength.isNumber THEN body.targetLength.n
                            ELSE DefaultTargetLength,
           sections |-> IF body.sections.isArray THEN body.sections.items ELSE <<>>,
           category |-> IF body.category = "kompensatory_svg" THEN "kompensatory_svg"
                        ELSE "kompensacja_mocy_biernej"]]

\* errorMessage.includes('required'), over the messages the code can throw.
IncludesRequired(msg) ==
  msg \in {"Request body is required", "topic is required and must be a string",
           "keywords is required and must be a non-empty array", NoKeysError}

\* Number of topics per category in the cron handler's TOPICS table.
TopicsLength == 4

\* Number of topics per category in schedule.ts's SCHEDULED_TOPICS table.
ScheduledTopicsLength == 2

\* The outline built from entry index of a topic table.
TableOutline(table, category, index) ==
  [topic |-> <<table, category, index>>, keywords |-> <<"k">>,
   targetLength |-> DefaultTargetLength, sections |-> <<"s">>, category |-> category]

\* getTopicForToday: null on any day but Monday and Thursday.
getTopicForToday(day, week) ==
  IF day = Monday
    THEN [isNull |-> FALSE, category |-> "kompensacja_mocy_biernej",
          topicIndex |-> week % TopicsLength]
  ELSE IF day = Thursday
    THEN [isNull |-> FALSE, category |-> "kompensatory_svg",
          topicIndex |-> week % TopicsLength]
  ELSE [isNull |-> TRUE, category |-> "", topicIndex |-> 0]

\* schedule.ts: the category chosen from the day of the week.
ScheduleCategory(day) ==
  IF day = Thursday THEN "kompensatory_svg" ELSE "kompensacja_mocy_biernej"

\* ------------------------------------------------------------------- state
VARIABLES
  pc,           \* the handler run's position: idle, await_gen, await_publish, done
  kind,         \* which handler runs: generate, cron, schedule
  outline,      \* the ArticleOutline handed to generateArticlesParallel
  config,       \* the AIConfig handed to generateArticlesParallel
  topicData,    \* category and topicIndex chosen by the cron / schedule handler
  calls,        \* vendor calls issued in this run, per writer
  promise,      \* the state of each adapter's promise
  promises,     \* the promises array, as the writers it holds
  writerNames,  \* the writerNames array
  settled,      \* the writers in the order their promises settled
  gen,          \* the promise of generateArticlesParallel
  errlog,       \* the console.error reports of this run
  selIn,        \* the arguments selectBestArticle was called with
  selOut,       \* what selectBestArticle returned or threw
  odoo,         \* the promise of publishToOdoo
  response,     \* the HTTP response sent
  topicCounter, \* schedule.ts's module-level counter
  vendor,       \* what each writer's vendor call ended in
  today,        \* the day of the week read by the cron / schedule handler
  req           \* the secrets and headers of the request whose authentication
                \* is examined (held in the authentication specification only)

vars == <<pc, kind, outline, config, topicData, calls, promise, promises, writerNames,
          settled, gen, errlog, selIn, selOut, odoo, response, topicCounter, vendor,
          today, req>>

\* No request is held for the examination of its authentication.
NoRequest == [held |-> FALSE]

NoOutline == [topic |-> <<>>, keywords |-> <<>>, targetLength |-> 0, sections |-> <<>>,
              category |-> ""]

NoConfig == [k \in {"geminiApiKey", "openaiApiKey", "anthropicApiKey"} |-> Absent]

NoTopicData == [category |-> "", topicIndex |-> 0]

NoResponse == [status |-> 0]

NotCalled == [status |-> "none"]

NoVendor == [w \in Writers |-> "none"]

NoDay == [known |-> FALSE, day |-> 0]

\* const dayOfWeek = new Date().getDay()
DayRead(day) == [known |-> TRUE, day |-> day]

\* The per-run state before a request arrives.
RunIdle ==
  /\ pc = "idle"
  /\ kind = "none"
  /\ outline = NoOutline
  /\ config = NoConfig
  /\ topicData = NoTopicData
  /\ calls = [w \in Writers |-> 0]
  /\ promise = [w \in Writers |-> NotDispatched]
  /\ promises = <<>>
  /\ writerNames = <<>>
  /\ settled = <<>>
  /\ gen = NotCalled
  /\ errlog = <<>>
  /\ selIn = <<>>
  /\ selOut = NotCalled
  /\ odoo = NotCalled
  /\ response = NoResponse
  /\ vendor = NoVendor
  /\ today = NoDay

Init == RunIdle /\ topicCounter = 0 /\ req = NoRequest

\* The variables of the orchestrator and what follows it, untouched by a
\* handler that returns before calling generateArticlesParallel.
NoGeneration ==
  UNCHANGED <<outline, config, topicData, calls, promise, promises, writerNames,
              settled, gen, errlog, selIn, selOut, odoo, vendor>>

\* The handler returns res.status(code).json(body).
Respond(code, body) ==
  /\ response' = [status |-> code, body |-> body]
  /\ pc' = "done"

\* The synchronous start of generateArticlesParallel(o, cfg): every enabled
\* adapter is invoked and issues its vendor call; with no promise the function
\* throws, otherwise it awaits Promise.allSettled. The handler awaits its promise.
StartGeneration(o, cfg) ==
  LET ps == DispatchList(cfg)
  IN /\ outline' = o
     /\ config' = cfg
     /\ promises' = ps
     /\ writerNames' = NamesOf(ps)
     /\ calls' = [w \in Writers |-> calls[w] + CallsOf(ps, w)]
     /\ promise' = [w \in Writers |->
                      IF CallsOf(ps, w) > 0 THEN Pending ELSE NotDispatched]
     /\ gen' = StartOutcome(ps)
     /\ pc' = "await_gen"
     /\ UNCHANGED <<settled, errlog, selIn, selOut, odoo, response, vendor>>

\* POST /api/generate, up to its first await.
GenerateRequest(method, apiSecret, authHeader, body, cfg) ==
  /\ UNCHANGED req
  /\ pc = "idle"
  /\ kind' = "generate"
  /\ UNCHANGED <<topicCounter, today>>
  /\ IF method = "OPTIONS"
       THEN Respond(200, [end |-> TRUE]) /\ NoGeneration
     ELSE IF method # "POST"
       THEN Respond(405, [error |-> "Method not allowed"]) /\ NoGeneration
     ELSE IF Truthy(apiSecret) /\ authHeader # BearerOf(apiSecret)
       THEN Respond(401, [error |-> "Unauthorized"]) /\ NoGeneration
     ELSE LET v == validateOutline(body)
          IN IF ~v.ok
               THEN /\ Respond(IF IncludesRequired(v.error) THEN 400 ELSE 500,
                               [success |-> FALSE, error |-> v.error])
                    /\ errlog' = Append(errlog, [src |-> "API", writer |-> ""])
                    /\ UNCHANGED <<outline, config, topicData, calls, promise, promises,
                                   writerNames, settled, gen, selIn, selOut, odoo,
                                   vendor>>
             ELSE IF ~Truthy(cfg.geminiApiKey) /\ ~Truthy(cfg.openaiApiKey)
                       /\ ~Truthy(cfg.anthropicApiKey)
               THEN Respond(500, [error |-> "No AI API keys configured"]) /\ NoGeneration
             ELSE StartGeneration(v.outline, cfg) /\ UNCHANGED topicData

\* The cron handler of api/generate.ts (GET, publishing to Odoo), up to its
\* first await.
CronRequest(cronSecret, apiSecret, sigHeader, authHeader, day, week, cfg) ==
  /\ UNCHANGED req
  /\ pc = "idle"
  /\ kind' = "cron"
  /\ UNCHANGED topicCounter
  /\ IF Truthy(cronSecret) /\ sigHeader # cronSecret /\ authHeader # BearerOf(apiSecret)
       THEN Respond(401, [error |-> "Unauthorized"]) /\ NoGeneration /\ UNCHANGED today
     ELSE LET t == getTopicForToday(day, week)
          IN IF t.isNull
               THEN Respond(200, [success |-> TRUE,
                                  message |-> "Not a scheduled publication day"])
                    /\ NoGeneration
                    /\ today' = DayRead(day)
             ELSE /\ today' = DayRead(day)
                  /\ topicData' = [category |-> t.category, topicIndex |-> t.topicIndex]
                  /\ StartGeneration(TableOutline("TOPICS", t.category, t.topicIndex), cfg)

\* api/schedule.ts, up to its first await.
ScheduleRequest(cronSecret, authHeader, day, cfg) ==
  /\ UNCHANGED req
  /\ pc = "idle"
  /\ kind' = "schedule"
  /\ IF Truthy(cronSecret) /\ authHeader # BearerOf(cronSecret)
       THEN Respond(401, [error |-> "Unauthorized"]) /\ NoGeneration
            /\ UNCHANGED <<topicCounter, today>>
     ELSE LET category == ScheduleCategory(day)
              topicIndex == topicCounter % ScheduledTopicsLength
          IN /\ topicCounter < MaxCounter
             /\ today' = DayRead(day)
             /\ topicCounter' = topicCounter + 1
             /\ topicData' = [category |-> category, topicIndex |-> topicIndex]
             /\ StartGeneration(TableOutline("SCHEDULED_TOPICS", category, topicIndex), cfg)

\* A dispatched vendor call ends with response r and the adapter's
\* continuation runs to its end: it returns the article, or logs and rethrows.
Settle(w, r) ==
  /\ UNCHANGED req
  /\ promise[w] = Pending
  /\ promise' = [promise EXCEPT ![w] = AdapterSettle(w, outline.topic, r)]
  /\ settled' = Append(settled, w)
  /\ errlog' = IF r.kind = "error"
                 THEN Append(errlog, [src |-> "adapter", writer |-> WriterName(w)])
                 ELSE errlog
  /\ vendor' = [vendor EXCEPT ![w] = r.kind]
  /\ UNCHANGED <<pc, kind, outline, config, topicData, calls, promises, writerNames,
                 gen, selIn, selOut, odoo, response, topicCounter, today>>

\* generateArticlesParallel resumes after await Promise.allSettled(promises):
\* it collects the articles, reports the failures and returns or throws.
Join ==
  /\ UNCHANGED req
  /\ gen = Pending
  /\ AllSettled(promises, promise)
  /\ LET results == SettledResults(promises, promise)
     IN /\ gen' = JoinOutcome(CollectArticles(results))
        /\ errlog' = errlog \o JoinErrors(results, writerNames)
  /\ UNCHANGED <<pc, kind, outline, config, topicData, calls, promise, promises,
                 writerNames, settled, selIn, selOut, odoo, response, topicCounter,
                 vendor, today>>

\* The catch block of the running handler, for an error with message msg.
Catch(msg) ==
  CASE kind = "generate" ->
         /\ Respond(IF IncludesRequired(msg) THEN 400 ELSE 500,
                    [success |-> FALSE, error |-> msg])
         /\ errlog' = Append(errlog, [src |-> "API", writer |-> ""])
    [] kind = "cron" ->
         /\ Respond(500, [success |-> FALSE, error |-> msg])
         /\ errlog' = Append(errlog, [src |-> "Cron", writer |-> ""])
    [] kind = "schedule" ->
         /\ Respond(500, [error |-> "Scheduled generation failed", message |-> msg])
         /\ errlog' = Append(errlog, [src |-> "Schedule", writer |-> ""])

\* A variant that reports every article as an alternative.
AlternativesAll(articles, best) == articles

\* articles.filter(a => a.writer !== bestArticle.writer)
Alternatives(articles, best) == SelectSeq(articles, LAMBDA a : a.writer # best.writer)

\* A variant of the success response that reports neither the alternatives
\* nor the number of articles.
SuccessBodyBare(articles, best) ==
  IF kind = "generate"
    THEN [success |-> TRUE, article |-> best, alternatives |-> <<>>,
          metadata |-> [totalArticles |-> 1, selectedWriter |-> best.writer]]
    ELSE [success |-> TRUE, scheduled |-> TRUE, category |-> topicData.category,
          topicIndex |-> topicData.topicIndex,
          article |-> [title |-> best.title, writer |-> best.writer,
                       wordCount |-> best.wordCount],
          nextTopicIndex |-> topicCounter % ScheduledTopicsLength]

\* The success response of each handler that answers right after selection.
SuccessBody(articles, best) ==
  IF kind = "generate"
    THEN [success |-> TRUE, article |-> best,
          alternatives |-> Alternatives(articles, best),
          metadata |-> [totalArticles |-> Len(articles), selectedWriter |-> best.writer]]
    ELSE [success |-> TRUE, scheduled |-> TRUE, category |-> topicData.category,
          topicIndex |-> topicData.topicIndex,
          article |-> [title |-> best.title, writer |-> best.writer,
                       wordCount |-> best.wordCount],
          nextTopicIndex |-> topicCounter % ScheduledTopicsLength]

\* A variant of the cron handler's response in which a failed publication
\* turns the run into a failure.
CronResponseFatal(best, category, o) ==
  IF o.status = "fulfilled"
    THEN [status |-> 200,
          body |-> [success |-> TRUE,
                    article |-> [title |-> best.title, writer |-> best.writer,
                                 wordCount |-> best.wordCount, category |-> category],
                    odoo |-> [isNull |-> FALSE, id |-> o.id, status |-> "draft"]]]
    ELSE [status |-> 500, body |-> [success |-> FALSE, error |-> o.error]]

\* The cron handler's response after the publishing attempt ended in o: the
\* article's summary, and the Odoo post or null.
CronResponse(best, category, o) ==
  [status |-> 200,
   body |-> [success |-> TRUE,
             article |-> [title |-> best.title, writer |-> best.writer,
                          wordCount |-> best.wordCount, category |-> category],
             odoo |-> IF o.status = "fulfilled"
                        THEN [isNull |-> FALSE, id |-> o.id, status |-> "draft"]
                        ELSE [isNull |-> TRUE, id |-> 0, status |-> ""]]]

\* A variant of selectBestArticle's effect on its argument in which the
\* array itself is sorted.
ArticlesAfterSelectSorted(articles) ==
  LET scored == SortDesc(Scored(articles))
  IN [i \in 1..Len(scored) |-> scored[i].article]

\* The argument array after selectBestArticle(articles) returns: map builds
\* a new array and sort works on that one, so the argument is as it was.
ArticlesAfterSelect(articles) == articles

\* The synchronous start of publishToOdoo: it throws without ODOO_API_KEY,
\* otherwise it awaits fetch.
PublishStart(odooKey) ==
  IF ~Truthy(odooKey)
    THEN [status |-> "rejected", error |-> "ODOO_API_KEY not configured"]
    ELSE Pending

\* The handler resumes after await generateArticlesParallel(...): on a
\* rejection its catch block answers; otherwise it selects the best article
\* and answers, or (cron) starts publishing.
GenResume(odooKey) ==
  /\ UNCHANGED req
  /\ pc = "await_gen"
  /\ gen.status \in {"fulfilled", "rejected"}
  /\ UNCHANGED <<kind, outline, config, topicData, calls, promise, promises,
                 writerNames, settled, topicCounter, vendor, today>>
  /\ IF gen.status = "rejected"
       THEN Catch(gen.error) /\ UNCHANGED <<gen, selIn, selOut, odoo>>
     ELSE LET sel == selectBestArticle(gen.value)
              articles == ArticlesAfterSelect(gen.value)
          IN /\ selIn' = Append(selIn, gen.value)
             /\ selOut' = sel
             /\ IF ~sel.ok
                  THEN Catch(sel.error) /\ UNCHANGED <<gen, odoo>>
                ELSE IF kind = "cron"
                  THEN /\ gen' = [gen EXCEPT !.value = articles]
                       /\ odoo' = PublishStart(odooKey)
                       /\ pc' = "await_publish"
                       /\ UNCHANGED <<response, errlog>>
                ELSE /\ gen' = [gen EXCEPT !.value = articles]
                     /\ Respond(200, SuccessBody(articles, sel.article))
                     /\ UNCHANGED <<odoo, errlog>>

\* What publishToOdoo's promise settles to when its fetch ends.
OdooOutcomes ==
  {[status |-> "rejected", error |-> "network error"],
   [status |-> "rejected", error |-> "Odoo API error"],
   [status |-> "fulfilled", id |-> 1]}

\* The fetch of publishToOdoo ends.
OdooSettle(o) ==
  /\ UNCHANGED req
  /\ odoo = Pending
  /\ odoo' = o
  /\ UNCHANGED <<pc, kind, outline, config, topicData, calls, promise, promises,
                 writerNames, settled, gen, errlog, selIn, selOut, response, topicCounter,
                 vendor, today>>

\* The cron handler resumes after await publishToOdoo(...): a rejection is
\* caught and logged, and the success response is sent either way.
PublishResume ==
  /\ UNCHANGED req
  /\ pc = "await_publish"
  /\ odoo.status \in {"fulfilled", "rejected"}
  /\ errlog' = IF odoo.status = "rejected"
                 THEN Append(errlog, [src |-> "Cron", writer |-> ""])
                 ELSE errlog
  /\ LET r == CronResponse(selOut.article, topicData.category, odoo)
     IN Respond(r.status, r.body)
  /\ UNCHANGED <<kind, outline, config, topicData, calls, promise, promises,
                 writerNames, settled, gen, selIn, selOut, odoo, topicCounter, vendor,
                 today>>

\* The run is over; the process takes the next request.
NextRequest ==
  /\ UNCHANGED req
  /\ pc = "done"
  /\ pc' = "idle"
  /\ kind' = "none"
  /\ outline' = NoOutline
  /\ config' = NoConfig
  /\ topicData' = NoTopicData
  /\ calls' = [w \in Writers |-> 0]
  /\ promise' = [w \in Writers |-> NotDispatched]
  /\ promises' = <<>>
  /\ writerNames' = <<>>
  /\ settled' = <<>>
  /\ gen' = NotCalled
  /\ errlog' = <<>>
  /\ selIn' = <<>>
  /\ selOut' = NotCalled
  /\ odoo' = NotCalled
  /\ response' = NoResponse
  /\ vendor' = NoVendor
  /\ today' = NoDay
  /\ UNCHANGED topicCounter

DoGenerateRequest ==
  /\ pc = "idle"
  /\ \E method \in Methods, apiSecret \in ApiSecrets, authHeader \in AuthHeaders,
     body \in Bodies, cfg \in AIConfigs :
    GenerateRequest(method, apiSecret, authHeader, body, cfg)

DoCronRequest ==
  /\ pc = "idle"
  /\ \E cronSecret \in CronSecrets, apiSecret \in ApiSecrets, sigHeader \in SigHeaders,
     authHeader \in AuthHeaders, day \in Days, week \in 0..MaxWeek, cfg \in AIConfigs :
    CronRequest(cronSecret, apiSecret, sigHeader, authHeader, day, week, cfg)

DoScheduleRequest ==
  /\ pc = "idle"
  /\ \E cronSecret \in CronSecrets, authHeader \in AuthHeaders, day \in Days,
     cfg \in AIConfigs :
    ScheduleRequest(cronSecret, authHeader, day, cfg)

DoSettle == \E w \in Writers : \E r \in VendorResponses(w) : Settle(w, r)

DoGenResume == \E odooKey \in OdooKeys : GenResume(odooKey)

DoOdooSettle == \E o \in OdooOutcomes : OdooSettle(o)

Next ==
  \/ DoGenerateRequest
  \/ DoCronRequest
  \/ DoScheduleRequest
  \/ DoSettle
  \/ Join
  \/ DoGenResume
  \/ DoOdooSettle
  \/ PublishResume
  \/ NextRequest

Spec == Init /\ [][Next]_vars

\* ---------------------------------------------- selectBestArticle alone
\* A caller may populate scores before calling selectBestArticle. This
\* specification starts with any array of up to three articles by distinct
\* writers, with or without scores, and applies selectBestArticle to it.
ScoreValues == {-1} \cup 0..MaxScore

ScoreFields == {NoScores} \cup {Scores(n) : n \in ScoreValues}

ArticleChoices(w) ==
  {[MkArticle(w, <<"T">>, WordsText(n)) EXCEPT !.scores = sc] :
     n \in 1..MaxWords, sc \in ScoreFields}

\* The sequences of distinct writers.
WriterSeqs ==
  UNION {{ws \in [1..n -> Writers] : Cardinality({ws[i] : i \in 1..n}) = n} :
           n \in 0..Cardinality(Writers)}

ArticleInputs ==
  UNION {{as \in [1..Len(ws) -> UNION {ArticleChoices(w) : w \in Writers}] :
            \A i \in 1..Len(ws) : as[i].writer = ws[i]} : ws \in WriterSeqs}

InitSelect ==
  /\ pc = "select"
  /\ kind = "none"
  /\ outline = NoOutline
  /\ config = NoConfig
  /\ topicData = NoTopicData
  /\ calls = [w \in Writers |-> 0]
  /\ promise = [w \in Writers |-> NotDispatched]
  /\ promises = <<>>
  /\ writerNames = <<>>
  /\ settled = <<>>
  /\ gen \in {[status |-> "fulfilled", value |-> as] : as \in ArticleInputs}
  /\ errlog = <<>>
  /\ selIn = <<>>
  /\ selOut = NotCalled
  /\ odoo = NotCalled
  /\ response = NoResponse
  /\ topicCounter = 0
  /\ vendor = NoVendor
  /\ today = NoDay
  /\ req = NoRequest

\* The caller applies selectBestArticle to the array it holds.
SelectCall ==
  /\ UNCHANGED req
  /\ pc = "select"
  /\ selIn' = Append(selIn, gen.value)
  /\ selOut' = selectBestArticle(gen.value)
  /\ gen' = IF selectBestArticle(gen.value).ok
              THEN [gen EXCEPT !.value = ArticlesAfterSelect(gen.value)]
              ELSE gen
  /\ pc' = "select_done"
  /\ UNCHANGED <<kind, outline, config, topicData, calls, promise, promises,
                 writerNames, settled, errlog, odoo, response, topicCounter,
                 vendor, today>>

NextSelect == SelectCall

SpecSelect == InitSelect /\ [][NextSelect]_vars

\* ------------------------------------------------------------------ claims
\* The providers the credentials enable: credential present and non-empty.
Enabled == {w \in Writers : config[KeyOf(w)] \notin {Absent, ""}}

\* generateArticlesParallel has been called in the current run.
Called == gen # NotCalled

Succeeded == {w \in Writers : promise[w].status = "fulfilled"}

Failed == {w \in Writers : promise[w].status = "rejected"}

InFlight == {w \in Writers : promise[w].status = "pending"}

\* Number of entries of the sequence q that satisfy Test.
CountIn(q, Test(_)) == Cardinality({i \in 1..Len(q) : Test(q[i])})

\* Position of writer w in the sequence q of writers (0 when absent).
PosIn(q, w) == IF \E i \in 1..Len(q) : q[i] = w
                 THEN CHOOSE i \in 1..Len(q) : q[i] = w
                 ELSE 0

\* C1: in a run of generateArticlesParallel with at least one enabled
\* provider, exactly one vendor call has been issued for each enabled provider
\* and none for a disabled one, at every point of the run, whatever the calls
\* ended in (a failed call is not retried).
C1_OneCallPerEnabled ==
  (Called /\ Enabled # {}) =>
    \A w \in Writers : calls[w] = IF w \in Enabled THEN 1 ELSE 0

\* C1 witness: keys {gemini: key, openai: "", anthropic: key}; the run is
\* over, gemini's call failed, and only gemini and claude were called.
C1_Witness ==
  /\ pc = "done"
  /\ config = [geminiApiKey |-> "key", openaiApiKey |-> "", anthropicApiKey |-> "key"]
  /\ promise["gemini"].status = "rejected"
  /\ promise["claude"].status = "fulfilled"
  /\ calls = [gemini |-> 1, chatgpt |-> 0, claude |-> 1]

\* C2: with no enabled provider, generateArticlesParallel fails with the
\* no-providers error and no vendor call is issued in that run.
C2_NoProvidersNoCalls ==
  (Called /\ Enabled = {}) =>
    /\ gen = [status |-> "rejected", error |-> NoKeysError]
    /\ \A w \in Writers : calls[w] = 0 /\ promise[w] = NotDispatched

\* C2 witness: the schedule handler ran generateArticlesParallel with one key
\* unset and two empty, and answered.
C2_Witness ==
  /\ pc = "done"
  /\ kind = "schedule"
  /\ config = [geminiApiKey |-> Absent, openaiApiKey |-> "", anthropicApiKey |-> ""]
  /\ gen = [status |-> "rejected", error |-> NoKeysError]
  /\ response.status = 500

\* C3: once generateArticlesParallel has settled, it has failed with the
\* all-failed error exactly when some provider was enabled and every
\* dispatched call failed; that error differs from the no-providers error, and
\* it is never produced when a call succeeded or when no provider was enabled.
C3_AllFailedIff ==
  /\ AllFailedError # NoKeysError
  /\ gen.status \in {"fulfilled", "rejected"} =>
       /\ (Enabled # {} /\ \A w \in Enabled : promise[w].status = "rejected")
            <=> gen = [status |-> "rejected", error |-> AllFailedError]
       /\ Enabled = {} => gen.error # AllFailedError
       /\ Succeeded # {} => gen.status = "fulfilled"

\* C3 witness: all three providers enabled, all three calls failed, and
\* generateArticlesParallel failed with the all-failed error.
C3_Witness ==
  /\ Enabled = Writers
  /\ Failed = Writers
  /\ gen = [status |-> "rejected", error |-> AllFailedError]

\* C4: the array generateArticlesParallel returns holds exactly one article
\* for each provider whose call succeeded, that provider's own article with
\* its identity as writer, and nothing for a provider that failed or was
\* disabled; so it has k entries when k calls succeeded, and k >= 1.
C4_ExactlyTheSuccesses ==
  gen.status = "fulfilled" =>
    /\ Len(gen.value) = Cardinality(Succeeded)
    /\ Cardinality(Succeeded) >= 1
    /\ Succeeded \subseteq Enabled
    /\ \A w \in Writers :
         CountIn(gen.value, LAMBDA a : a.writer = w) = IF w \in Succeeded THEN 1 ELSE 0
    /\ \A w \in Succeeded :
         /\ promise[w].value.writer = w
         /\ \E i \in 1..Len(gen.value) : gen.value[i] = promise[w].value

\* C4 witness: three providers enabled, two succeeded and one failed (k = 2,
\* n = 3), and the returned array has two entries.
C4_Witness ==
  /\ Enabled = Writers
  /\ Cardinality(Succeeded) = 2
  /\ Cardinality(Failed) = 1
  /\ gen.status = "fulfilled"
  /\ Len(gen.value) = 2

\* C5: an array returned by generateArticlesParallel is never empty, so in
\* every handler run selectBestArticle is only called with a non-empty array
\* and never throws its no-articles error.
C5_SelectNeverEmpty ==
  /\ gen.status = "fulfilled" => Len(gen.value) >= 1
  /\ \A i \in 1..Len(selIn) : Len(selIn[i]) >= 1
  /\ selOut # NotCalled => selOut.ok
  /\ pc = "done" /\ response.status = 200 /\ Called => Len(selIn) = 1

\* C5 witness: the cron handler called selectBestArticle on the one article
\* left after two of three calls failed.
C5_Witness ==
  /\ kind = "cron"
  /\ Enabled = Writers
  /\ Cardinality(Failed) = 2
  /\ Len(selIn) = 1
  /\ Len(selIn[1]) = 1
  /\ selOut.ok

\* C6: generateArticlesParallel neither returns nor fails with the all-failed
\* error while a dispatched call is in flight; when it has settled after a
\* dispatch, every dispatched call has succeeded or failed, so it never
\* returns on the first success.
C6_JoinAllSettle ==
  /\ (gen.status = "fulfilled" \/ gen = [status |-> "rejected", error |-> AllFailedError])
       => /\ InFlight = {}
          /\ Succeeded \cup Failed = Enabled
          /\ Len(settled) = Cardinality(Enabled)
  /\ (pc \in {"await_publish", "done"} /\ Called) => InFlight = {}
  /\ InFlight # {} => gen = Pending /\ pc = "await_gen"

\* C6 witness: one call has succeeded while another is still in flight, and
\* generateArticlesParallel is still pending.
C6_Witness ==
  /\ Succeeded # {}
  /\ InFlight # {}
  /\ gen = Pending
  /\ pc = "await_gen"

\* The writers of the articles of q, in order.
WritersOf(q) == [i \in 1..Len(q) |-> q[i].writer]

JoinReports(w) ==
  CountIn(errlog, LAMBDA e : e.src = "AI Writers" /\ e.writer = WriterName(w))

\* The state part of C8: siblings of a failed call can still settle, and the
\* settled generateArticlesParallel holds every success and one report per
\* failure.
C8_Recovered ==
  /\ (Failed # {}) =>
       \A w \in InFlight : \A r \in VendorResponses(w) : ENABLED Settle(w, r)
  /\ (gen.status = "fulfilled" \/ gen = [status |-> "rejected", error |-> AllFailedError])
       => /\ \A w \in Writers : JoinReports(w) = IF w \in Failed THEN 1 ELSE 0
          /\ CountIn(errlog, LAMBDA e : e.src = "AI Writers") = Cardinality(Failed)
          /\ Succeeded # {} =>
               /\ gen.status = "fulfilled"
               /\ \A w \in Succeeded :
                    \E i \in 1..Len(gen.value) : gen.value[i] = promise[w].value
  /\ (pc = "done" /\ Called) => Succeeded \cup Failed = Enabled

\* The step part of C8: the step in which a call fails changes nothing but
\* that call's promise and the log.
C8_FailureStep ==
  \A w \in Writers :
    (promise[w] = Pending /\ promise'[w].status = "rejected") =>
      /\ \A v \in Writers \ {w} : promise'[v] = promise[v]
      /\ gen' = gen
      /\ pc' = pc
      /\ response' = response

ClaimedScore(a) == IF a.scores.present THEN a.scores.total ELSE a.wordCount

\* C9 as stated: on a non-empty array selectBestArticle returns an element of
\* greatest score (explicit score if present, else wordCount), the earliest
\* one among those tied on it, and the only element of a one-element array.
C9_GreatestEarliest ==
  (pc = "select_done" /\ Len(gen.value) >= 1) =>
    /\ selOut.ok
    /\ Len(gen.value) = 1 => selOut.article = gen.value[1]
    /\ \E i \in 1..Len(gen.value) :
         /\ selOut.article = gen.value[i]
         /\ \A j \in 1..Len(gen.value) :
              /\ ClaimedScore(gen.value[j]) <= ClaimedScore(gen.value[i])
              /\ j < i => ClaimedScore(gen.value[j]) < ClaimedScore(gen.value[i])

\* C10 as stated: on an array of two or more articles, the ranking key of
\* each article is its explicit score whenever one is present, whatever its
\* value, and its wordCount only when none is present.
C10_KeyIsScoreWhenPresent ==
  (pc = "select_done" /\ Len(gen.value) >= 2) =>
    /\ Len(selOut.scored) = Len(gen.value)
    /\ \A k \in 1..Len(selOut.scored) :
         selOut.scored[k].score = ClaimedScore(selOut.scored[k].article)

\* ------------------------------------------------- the adapters' word count
\* Longest text drawn for the word count of an adapter.
MaxTextLen == 5

\* Every text over the two character classes, up to MaxTextLen characters.
AllTexts == UNION {[1..n -> {"w", " "}] : n \in 0..MaxTextLen}

\* The state right after generateArticlesParallel(outline, cfg) dispatched its
\* adapters, in a process that ran nothing before.
Dispatched(cfg) ==
  LET ps == DispatchList(cfg)
  IN /\ pc = "await_gen"
     /\ kind = "generate"
     /\ outline = TableOutline("TOPICS", "kompensatory_svg", 0)
     /\ config = cfg
     /\ topicData = NoTopicData
     /\ calls = [w \in Writers |-> CallsOf(ps, w)]
     /\ promise = [w \in Writers |-> IF CallsOf(ps, w) > 0 THEN Pending ELSE NotDispatched]
     /\ promises = ps
     /\ writerNames = NamesOf(ps)
     /\ settled = <<>>
     /\ gen = StartOutcome(ps)
     /\ errlog = <<>>
     /\ selIn = <<>>
     /\ selOut = NotCalled
     /\ odoo = NotCalled
     /\ response = NoResponse
     /\ topicCounter = 0
     /\ vendor = NoVendor
     /\ today = NoDay
     /\ req = NoRequest

\* One adapter has been invoked through generateArticlesParallel and its
\* vendor call is in flight.
InitWords ==
  \E w \in Writers :
    Dispatched([k \in DOMAIN NoConfig |-> IF k = KeyOf(w) THEN "key" ELSE Absent])

\* The vendor answers with any text and the adapter builds its article.
WordsSettle ==
  \E w \in Writers : \E t \in AllTexts : Settle(w, [kind |-> "text", text |-> t])

NextWords == WordsSettle

SpecWords == InitWords /\ [][NextWords]_vars

\* Number of whitespace-separated tokens of a text: its maximal runs of
\* non-whitespace characters.
RECURSIVE TokenCount(_)
TokenCount(t) ==
  IF t = <<>> THEN 0
  ELSE LET rest == TokenCount(Tail(t))
       IN IF Head(t) # " " /\ (Len(t) = 1 \/ t[2] = " ") THEN rest + 1 ELSE rest

\* C11 (as claimed): every article an adapter returns has a wordCount equal to
\* the number of whitespace-separated tokens of its content, whatever the text.
C11_WordCountIsTokenCount ==
  \A w \in Writers :
    promise[w].status = "fulfilled" =>
      promise[w].value.wordCount = TokenCount(promise[w].value.content)

\* -------------------------------------------------------------- claims C12..
\* C12 (as claimed): a writer whose vendor call ended in an error or in a
\* response without a text payload has a rejected promise, and no article of
\* that writer is in the articles generateArticlesParallel returns.
C12_VendorErrorFails ==
  \A w \in Writers :
    vendor[w] \in {"error", "notext"} =>
      /\ promise[w].status = "rejected"
      /\ gen.status = "fulfilled" =>
           \A i \in 1..Len(gen.value) : gen.value[i].writer # w

\* The vendor responses of writer w that do not throw.
OkResponses(w) == {r \in VendorResponses(w) : r.kind # "error"}

\* The articles generateArticlesParallel returns, for the outline and the
\* configuration of this run, when every dispatched adapter returns an article.
FullSuccessArticles ==
  {CollectArticles(SettledResults(promises,
      [w \in Writers |-> AdapterSettle(w, outline.topic, f[w])])) :
     f \in {g \in [Writers -> UNION {OkResponses(w) : w \in Writers}] :
              \A w \in Writers : g[w] \in OkResponses(w)}}

\* What publishToOdoo's promise can end in.
PublishEnds == OdooOutcomes \cup {PublishStart(Absent)}

\* The responses this run's handler sends, for the same request and the same
\* configuration, when every dispatched adapter returns an article.
FullSuccessResponses ==
  UNION {LET best == selectBestArticle(as).article
         IN IF kind = "cron"
              THEN {CronResponse(best, topicData.category, o) : o \in PublishEnds}
              ELSE {[status |-> 200, body |-> SuccessBody(as, best)]} :
         as \in FullSuccessArticles}

\* The run ended in a success response that carries one selected article.
SelectedResponse ==
  /\ response.status = 200
  /\ response.body.success
  /\ response.body.article.writer \in Writers

\* The run ended in an error response.
FatalResponse ==
  /\ response.status >= 400
  /\ "error" \in DOMAIN response.body

\* C13 (as claimed): a handler run that called generateArticlesParallel ends
\* with either a success response carrying one selected article or an error
\* response, and if some dispatched adapter failed, the success response
\* differs from every success response the same request and configuration get
\* when all dispatched adapters succeed.
C13_PartialNeverLooksFull ==
  pc = "done" /\ Called =>
    /\ SelectedResponse # FatalResponse
    /\ SelectedResponse /\ Failed # {} => response \notin FullSuccessResponses

\* C13 (amended): a handler run that called generateArticlesParallel ends with
\* either a success response carrying one selected article or an error
\* response; when some dispatched adapter failed, the generate handler's
\* success response differs from every full-success response of the same
\* request and configuration (its totalArticles is below the number of
\* dispatched adapters), and in every handler each failure is reported once in
\* the log by generateArticlesParallel.
C13_GenerateRevealsPartial ==
  pc = "done" /\ Called =>
    /\ SelectedResponse # FatalResponse
    /\ SelectedResponse /\ Failed # {} =>
         /\ kind = "generate" =>
              /\ response \notin FullSuccessResponses
              /\ response.body.metadata.totalArticles < Len(promises)
         /\ \A w \in Failed : JoinReports(w) = 1

\* C13 witness: the generate handler answered with a selected article after
\* one of two dispatched adapters failed.
C13_Witness ==
  /\ pc = "done"
  /\ kind = "generate"
  /\ Called
  /\ SelectedResponse
  /\ Len(promises) = 2
  /\ Cardinality(Failed) = 1

\* The run ended because no provider key is configured: the generate handler's
\* own check answered, or generateArticlesParallel threw its no-keys error.
NoProvidersRun ==
  /\ pc = "done"
  /\ \/ /\ kind = "generate"
        /\ "error" \in DOMAIN response.body
        /\ response.body.error = "No AI API keys configured"
     \/ gen.status = "rejected" /\ gen.error = NoKeysError

\* The run ended because every dispatched adapter failed.
AllFailedRun ==
  /\ pc = "done"
  /\ gen.status = "rejected"
  /\ gen.error = AllFailedError

\* C14 (as claimed): a run without any provider key is answered with a 4xx
\* status and issues no vendor call, and a run in which every dispatched
\* adapter failed is answered with a 5xx status.
C14_DistinctErrorClasses ==
  /\ NoProvidersRun =>
       /\ response.status \in 400..499
       /\ \A w \in Writers : calls[w] = 0
  /\ AllFailedRun => response.status \in 500..599

\* C15: the cron handler starts publishToOdoo only after
\* generateArticlesParallel returned and selectBestArticle selected an article;
\* when publishing fails (no ODOO_API_KEY, a network error, a non-OK status) the
\* run still ends with the 200 success response that carries the selected
\* article, and the response's odoo field, null, reports the outcome apart.
C15_PublishFailureNotFatal ==
  /\ odoo # NotCalled =>
       /\ kind = "cron"
       /\ gen.status = "fulfilled"
       /\ selOut # NotCalled
       /\ selOut.ok
  /\ pc = "done" /\ odoo.status = "rejected" =>
       /\ response.status = 200
       /\ response.body.success
       /\ response.body.article.writer = selOut.article.writer
       /\ response.body.article.title = selOut.article.title
       /\ response.body.article.wordCount = selOut.article.wordCount
       /\ response.body.odoo.isNull
  /\ pc = "done" /\ odoo.status = "fulfilled" =>
       /\ response.status = 200
       /\ ~response.body.odoo.isNull

\* C15 witness: the cron run answered after publishToOdoo failed on a non-OK
\* status of the Odoo API.
C15_Witness ==
  /\ pc = "done"
  /\ kind = "cron"
  /\ odoo.status = "rejected"
  /\ odoo.error = "Odoo API error"
  /\ response.status = 200

\* ------------------------------------- generateArticlesParallel on its own
\* generateArticlesParallel has been called with any configuration.
InitGen == \E cfg \in AIConfigs : Dispatched(cfg)

\* The vendor call of writer w ends.
SettleOf(w) == \E r \in VendorResponses(w) : Settle(w, r)

NextGen == DoSettle \/ Join

SpecGen == InitGen /\ [][NextGen]_vars

\* Every dispatched vendor call eventually ends, and a continuation that can
\* run is run by the event loop.
FairGen == (\A w \in Writers : WF_vars(SettleOf(w))) /\ WF_vars(Join)

SpecGenFair == SpecGen /\ FairGen

\* generateArticlesParallel has completed: it returned or threw.
Completed == gen.status \in {"fulfilled", "rejected"}

\* A step completes a pending generateArticlesParallel only when no dispatched
\* call is in flight, and a completed one keeps its outcome.
C16_CompletionStep ==
  /\ gen = Pending /\ gen' # Pending => InFlight = {} /\ gen'.status \in {"fulfilled", "rejected"}
  /\ Completed => gen' = gen

\* C16: when every dispatched vendor call eventually settles, a pending
\* generateArticlesParallel eventually completes, with the articles or with an
\* error, and does so once; it has no timeout, so it never completes while a
\* dispatched call is still in flight.
C16_CompletesWhenAllSettle ==
  /\ (gen = Pending) ~> Completed
  /\ [][C16_CompletionStep]_vars
  /\ [](gen = Pending /\ InFlight # {} => ~ENABLED Join)

\* C16 witness: generateArticlesParallel completed after three dispatched
\* calls settled, one of them with an error.
C16_Witness ==
  /\ Completed
  /\ Len(promises) = 3
  /\ Len(settled) = 3
  /\ Cardinality(Failed) = 1

\* The generate handler sent its success response.
GenerateSuccess ==
  /\ pc = "done"
  /\ kind = "generate"
  /\ Called
  /\ response.status = 200

\* C17: in a success response of the generate handler the alternatives are the
\* returned articles without the selected one: the selected writer is not among
\* them, every other returned writer occurs once and in the order of the
\* returned articles, and there are metadata.totalArticles - 1 of them.
C17_AlternativesAreTheRest ==
  GenerateSuccess =>
    LET alts == response.body.alternatives
        best == response.body.article
        keep == {i \in 1..Len(gen.value) : gen.value[i].writer # best.writer}
    IN /\ best = selOut.article
       /\ \E i \in 1..Len(gen.value) : gen.value[i] = best
       /\ \A k \in 1..Len(alts) : alts[k].writer # best.writer
       /\ \A i \in keep : CountIn(alts, LAMBDA a : a = gen.value[i]) = 1
       /\ \A k \in 1..Len(alts) : \E i \in keep : alts[k] = gen.value[i]
       /\ \A k, l \in 1..Len(alts) :
            k < l => PosIn(WritersOf(gen.value), alts[k].writer)
                       < PosIn(WritersOf(gen.value), alts[l].writer)
       /\ response.body.metadata.totalArticles = Len(gen.value)
       /\ Len(alts) = response.body.metadata.totalArticles - 1
       /\ response.body.metadata.selectedWriter = best.writer

\* C17 witness: a success response of the generate handler with two
\* alternatives.
C17_Witness ==
  /\ GenerateSuccess
  /\ Len(response.body.alternatives) = 2

\* C18 (as claimed): the outline the generate handler hands to
\* generateArticlesParallel has a non-empty topic, at least one keyword, a
\* positive targetLength and one of the two categories; a request body without
\* these is answered 400 and no vendor call is issued.
C18_BriefIsValid ==
  kind = "generate" =>
    /\ Called =>
         /\ outline.topic # <<>>
         /\ Len(outline.keywords) >= 1
         /\ outline.targetLength > 0
         /\ outline.category \in Categories
    /\ pc = "done" /\ response.status = 400 =>
         /\ ~Called
         /\ \A w \in Writers : calls[w] = 0

\* C19 (as claimed): a scheduled run (the cron handler, the schedule handler)
\* generates for kompensacja_mocy_biernej only on Monday and for
\* kompensatory_svg only on Thursday, and on any other day issues no vendor
\* call and publishes nothing.
C19_OnlyOnItsDay ==
  kind \in {"cron", "schedule"} /\ today.known =>
    /\ Called /\ outline.category = "kompensacja_mocy_biernej" => today.day = Monday
    /\ Called /\ outline.category = "kompensatory_svg" => today.day = Thursday
    /\ today.day \notin {Monday, Thursday} =>
         /\ ~Called
         /\ \A w \in Writers : calls[w] = 0
         /\ odoo = NotCalled

\* The writers of sequence q occur in sequence p in the same relative order.
InOrderOf(q, p) ==
  \A k, l \in 1..Len(q) : k < l => 0 < PosIn(p, q[k]) /\ PosIn(p, q[k]) < PosIn(p, q[l])

\* C20: selectBestArticle leaves its argument as it was: after the call the
\* array holds the same articles in the same order as when it was passed, so
\* the alternatives the generate handler reports are in the order of the
\* returned articles, not in score order.
C20_SelectKeepsInput ==
  /\ selIn # <<>> /\ gen.status = "fulfilled" => gen.value = selIn[Len(selIn)]
  /\ GenerateSuccess =>
       /\ InOrderOf(WritersOf(response.body.alternatives), WritersOf(selIn[1]))
       /\ InOrderOf(WritersOf(response.body.alternatives), promises)

\* C20 witness: the generate handler answered after a selection whose ranking
\* (chatgpt, claude, gemini) differs from the order of the returned articles,
\* with gemini as the first alternative.
C20_Witness ==
  /\ GenerateSuccess
  /\ Len(gen.value) = 3
  /\ selOut.ok
  /\ WritersOf([i \in 1..Len(selOut.scored) |-> selOut.scored[i].article])
       = <<"chatgpt", "claude", "gemini">>
  /\ WritersOf(response.body.alternatives) = <<"gemini", "claude">>

\* -------------------------------------- overlapping requests to schedule.ts
\* Number of requests to api/schedule.ts that one process serves.
MaxRequests == 2

Requests == 1..MaxRequests

\* A variant of the increment that leaves the counter as it was.
NextCounterSame(c) == c

\* topicCounter++
NextCounter(c) == c + 1

\* The category and the topic the schedule handler chooses on a day, with
\* the counter value it read.
ScheduleChoice(counter, day) ==
  [category |-> ScheduleCategory(day),
   topicIndex |-> counter % ScheduledTopicsLength,
   counter |-> counter]

\* The schedule handler's success response; counter is topicCounter as it is
\* when the response is built.
ScheduleBody(td, best, counter) ==
  [success |-> TRUE, scheduled |-> TRUE, category |-> td.category,
   topicIndex |-> td.topicIndex,
   article |-> [title |-> best.title, writer |-> best.writer,
                wordCount |-> best.wordCount],
   nextTopicIndex |-> counter % ScheduledTopicsLength]

\* What generateArticlesParallel's promise is when the handler reaches its
\* await: rejected already without keys, pending otherwise.
SchedGenStarts == {Pending, [status |-> "rejected", error |-> NoKeysError]}

\* What a pending generateArticlesParallel of a request settles to.
SchedGenEnds(o) ==
  {[status |-> "rejected", error |-> AllFailedError]}
    \cup {[status |-> "fulfilled", value |-> <<MkArticle(w, o.topic, WordsText(1))>>] :
            w \in Writers}

\* In this specification the variables of a handler run hold one value per
\* request; the variables of the orchestrator's inside and the day read are
\* not used.
InitSched ==
  /\ pc = [r \in Requests |-> "idle"]
  /\ kind = [r \in Requests |-> "none"]
  /\ outline = [r \in Requests |-> NoOutline]
  /\ topicData = [r \in Requests |-> NoTopicData]
  /\ gen = [r \in Requests |-> NotCalled]
  /\ response = [r \in Requests |-> NoResponse]
  /\ topicCounter = 0
  /\ today = NoDay
  /\ config = NoConfig
  /\ calls = [w \in Writers |-> 0]
  /\ promise = [w \in Writers |-> NotDispatched]
  /\ promises = <<>>
  /\ writerNames = <<>>
  /\ settled = <<>>
  /\ errlog = <<>>
  /\ selIn = <<>>
  /\ selOut = NotCalled
  /\ odoo = NotCalled
  /\ vendor = NoVendor
  /\ req = NoRequest

SchedInside ==
  UNCHANGED <<today, config, calls, promise, promises, writerNames, settled, errlog,
              selIn, selOut, odoo, vendor>>

\* Request r arrives at api/schedule.ts and runs up to its first await.
SchedRequest(r, cronSecret, authHeader, day, g) ==
  /\ UNCHANGED req
  /\ pc[r] = "idle"
  /\ kind' = [kind EXCEPT ![r] = "schedule"]
  /\ SchedInside
  /\ IF Truthy(cronSecret) /\ authHeader # BearerOf(cronSecret)
       THEN /\ response' = [response EXCEPT ![r] = [status |-> 401,
                                                    body |-> [error |-> "Unauthorized"]]]
            /\ pc' = [pc EXCEPT ![r] = "done"]
            /\ UNCHANGED <<outline, topicData, gen, topicCounter>>
     ELSE LET td == ScheduleChoice(topicCounter, day)
          IN /\ topicData' = [topicData EXCEPT ![r] = td]
             /\ topicCounter' = NextCounter(topicCounter)
             /\ outline' = [outline EXCEPT ![r] =
                              TableOutline("SCHEDULED_TOPICS", td.category, td.topicIndex)]
             /\ gen' = [gen EXCEPT ![r] = g]
             /\ pc' = [pc EXCEPT ![r] = "await_gen"]
             /\ UNCHANGED response

\* generateArticlesParallel of request r settles.
SchedGenSettle(r, g) ==
  /\ UNCHANGED req
  /\ gen[r] = Pending
  /\ gen' = [gen EXCEPT ![r] = g]
  /\ SchedInside
  /\ UNCHANGED <<pc, kind, outline, topicData, response, topicCounter>>

\* Request r resumes after its await and answers.
SchedResume(r) ==
  /\ UNCHANGED req
  /\ pc[r] = "await_gen"
  /\ gen[r].status \in {"fulfilled", "rejected"}
  /\ response' = [response EXCEPT ![r] =
       IF gen[r].status = "rejected"
         THEN [status |-> 500,
               body |-> [error |-> "Scheduled generation failed",
                         message |-> gen[r].error]]
         ELSE [status |-> 200,
               body |-> ScheduleBody(topicData[r], selectBestArticle(gen[r].value).article,
                                     topicCounter)]]
  /\ pc' = [pc EXCEPT ![r] = "done"]
  /\ SchedInside
  /\ UNCHANGED <<kind, outline, topicData, gen, topicCounter>>

DoSchedRequest ==
  \E r \in Requests, cronSecret \in CronSecrets, authHeader \in AuthHeaders,
     day \in Days, g \in SchedGenStarts :
    SchedRequest(r, cronSecret, authHeader, day, g)

DoSchedGenSettle ==
  \E r \in Requests : \E g \in SchedGenEnds(outline[r]) : SchedGenSettle(r, g)

DoSchedResume == \E r \in Requests : SchedResume(r)

NextSched == DoSchedRequest \/ DoSchedGenSettle \/ DoSchedResume

SpecSched == InitSched /\ [][NextSched]_vars

\* The requests that have chosen their topic.
Chosen == {r \in Requests : pc[r] \in {"await_gen", "done"} /\ gen[r] # NotCalled}

\* The requests that are suspended at the await of generation.
Awaiting == {r \in Requests : pc[r] = "await_gen"}

\* The state part of C21.
C21_CounterCounts ==
  /\ topicCounter = Cardinality(Chosen)
  /\ \A r \in Chosen : topicData[r].counter < topicCounter
  /\ \A r, q \in Chosen : r # q => topicData[r].counter # topicData[q].counter
  /\ \A r \in Requests :
       pc[r] = "done" /\ response[r].status = 401 => r \notin Chosen
  /\ \A r \in Requests :
       pc[r] = "done" /\ response[r].status = 500 => r \in Chosen

\* The step part of C21: the counter changes only by one, in the step in
\* which an idle request reaches its await; a 401 answer and the answer after
\* generation, failed or not, leave it as it is.
C21_CounterStep ==
  /\ topicCounter' # topicCounter =>
       /\ topicCounter' = topicCounter + 1
       /\ \E r \in Requests :
            /\ pc[r] = "idle"
            /\ pc'[r] = "await_gen"
            /\ topicData'[r].counter = topicCounter
  /\ \A r \in Requests :
       pc[r] # "done" /\ pc'[r] = "done" => topicCounter' = topicCounter

\* C21: topicCounter of schedule.ts equals the number of authorized requests
\* that have chosen a topic; each reads and increments it in one step before
\* its first await, so no two requests, overlapping or not, read the same
\* value; a 401 request leaves it unchanged and a failed generation does not
\* roll the increment back.
C21_CounterIsRequestCount == []C21_CounterCounts /\ [][C21_CounterStep]_vars

\* C21 witness: two requests are suspended at the await of generation, the
\* first having read 1 and the second 0, and the generation of one has failed.
C21_Witness ==
  /\ Awaiting = {1, 2}
  /\ topicData[1].counter = 1
  /\ topicData[2].counter = 0
  /\ gen[2].status = "rejected"
  /\ topicCounter = 2

\* ------------------------------------------ topic rotation of schedule.ts
\* Number of passes through a topic table after which the modelled counter
\* starts over.
MaxCycles == 2

\* The counter is kept modulo a multiple of the table length, so that a
\* process can serve runs for ever in finitely many states; every index
\* computed from the counter (counter % topics.length) is the same as for
\* the unbounded counter.
CounterWrap == ScheduledTopicsLength * MaxCycles

\* One process serving requests to api/schedule.ts one after another.
InitRotate == RunIdle /\ topicCounter = 0 /\ req = NoRequest

RotateInside ==
  UNCHANGED <<config, calls, promise, promises, writerNames, settled, errlog, selIn,
              selOut, odoo, vendor>>

\* A request arrives at api/schedule.ts and runs up to its first await.
RotateRequest(cronSecret, authHeader, day, g) ==
  /\ UNCHANGED req
  /\ pc = "idle"
  /\ kind' = "schedule"
  /\ RotateInside
  /\ IF Truthy(cronSecret) /\ authHeader # BearerOf(cronSecret)
       THEN /\ Respond(401, [error |-> "Unauthorized"])
            /\ UNCHANGED <<outline, topicData, gen, today, topicCounter>>
     ELSE LET td == ScheduleChoice(topicCounter, day)
          IN /\ today' = DayRead(day)
             /\ topicData' = td
             /\ topicCounter' = NextCounter(topicCounter) % CounterWrap
             /\ outline' = TableOutline("SCHEDULED_TOPICS", td.category, td.topicIndex)
             /\ gen' = g
             /\ pc' = "await_gen"
             /\ UNCHANGED response

\* generateArticlesParallel of the run settles.
RotateGenSettle(g) ==
  /\ UNCHANGED req
  /\ pc = "await_gen"
  /\ gen = Pending
  /\ gen' = g
  /\ RotateInside
  /\ UNCHANGED <<pc, kind, outline, topicData, response, today, topicCounter>>

\* The handler resumes after its await and answers.
RotateResume ==
  /\ UNCHANGED req
  /\ pc = "await_gen"
  /\ gen.status \in {"fulfilled", "rejected"}
  /\ IF gen.status = "rejected"
       THEN Respond(500, [error |-> "Scheduled generation failed", message |-> gen.error])
       ELSE Respond(200, ScheduleBody(topicData, selectBestArticle(gen.value).article,
                                      topicCounter))
  /\ RotateInside
  /\ UNCHANGED <<kind, outline, topicData, gen, today, topicCounter>>

\* An authorized run on Monday, and one on Thursday.
MondayRun == \E g \in SchedGenStarts : RotateRequest(Absent, NoHeader, Monday, g)

ThursdayRun == \E g \in SchedGenStarts : RotateRequest(Absent, NoHeader, Thursday, g)

DoRotateRequest ==
  /\ pc = "idle"
  /\ \E cronSecret \in CronSecrets, authHeader \in AuthHeaders, day \in Days,
        g \in SchedGenStarts :
       RotateRequest(cronSecret, authHeader, day, g)

DoRotateGenSettle == \E g \in SchedGenEnds(outline) : RotateGenSettle(g)

NextRotate == DoRotateRequest \/ DoRotateGenSettle \/ RotateResume \/ NextRequest

SpecRotate == InitRotate /\ [][NextRotate]_vars

\* Every run comes to its end, and runs on Monday and runs on Thursday keep
\* coming.
FairRotate ==
  /\ WF_vars(DoRotateGenSettle)
  /\ WF_vars(RotateResume)
  /\ WF_vars(NextRequest)
  /\ SF_vars(MondayRun)
  /\ SF_vars(ThursdayRun)

SpecRotateFair == SpecRotate /\ FairRotate

\* A run has selected topic i of category c.
Selected(c, i) ==
  /\ pc = "await_gen"
  /\ topicData.category = c
  /\ topicData.topicIndex = i

\* C22 (as claimed): in a process whose authorized scheduled runs keep coming
\* for both categories, every topic of each category is eventually selected.
C22_EveryTopicSelected ==
  \A c \in Categories : \A i \in 0..(ScheduledTopicsLength - 1) : <>Selected(c, i)

\* ------------------------------------- authentication of the cron handler
\* The secrets of the environment and the headers of a request to the cron
\* handler.
CronRequests ==
  [held : {TRUE}, cronSecret : CronSecrets, apiSecret : ApiSecrets,
   sigHeader : SigHeaders, authHeader : AuthHeaders]

\* The provider keys of the runs whose authentication is examined.
AuthConfigs ==
  {cfg \in AIConfigs : cfg.geminiApiKey = "key" /\ cfg.openaiApiKey = Absent
                         /\ cfg.anthropicApiKey \in {Absent, "key"}}

\* A process about to serve one request to the cron handler, with any
\* secrets and headers.
InitAuth == RunIdle /\ topicCounter = 0 /\ req \in CronRequests

\* The request is served on a publication day.
AuthCronRequest ==
  /\ pc = "idle"
  /\ \E day \in {Monday, Thursday}, cfg \in AuthConfigs :
       CronRequest(req.cronSecret, req.apiSecret, req.sigHeader, req.authHeader,
                   day, 0, cfg)

NextAuth ==
  \/ AuthCronRequest
  \/ DoSettle
  \/ Join
  \/ DoGenResume
  \/ DoOdooSettle
  \/ PublishResume

SpecAuth == InitAuth /\ [][NextAuth]_vars

\* The request carries what the claim names as a credential: the signature
\* that equals CRON_SECRET, or 'Bearer ' followed by a configured API_SECRET.
HasCredential ==
  \/ req.sigHeader = req.cronSecret
  \/ Truthy(req.apiSecret) /\ req.authHeader = <<"Bearer", req.apiSecret>>

\* C23 (as claimed): with CRON_SECRET configured, a request to the cron
\* handler that carries neither the signature equal to CRON_SECRET nor
\* 'Bearer ' followed by a configured API_SECRET is answered 401, with no
\* vendor call issued and no publication attempted.
C23_CronAuthRequired ==
  kind = "cron" /\ Truthy(req.cronSecret) /\ ~HasCredential =>
    /\ pc = "done"
    /\ response.status = 401
    /\ \A w \in Writers : calls[w] = 0
    /\ odoo = NotCalled

====
